---- MODULE Spec2Model ----
(***************************************************************************)
(* A model of package log (src/log.go): the process-wide level threshold,  *)
(* the Logger built by New, the five emission calls that go through _log,  *)
(* the file sink's WriteMsg, and the pure function reshape.                *)
(*                                                                         *)
(* Strings are sequences of bytes (integers), as the code treats them      *)
(* ("Assumes ASCII").                                                      *)
(***************************************************************************)
EXTENDS Integers, Sequences, FiniteSets, TLC

VARIABLES
    level,      \* var level Level (log.go:24), the process-wide threshold
    goos,       \* runtime.GOOS of the build
    loggers,    \* Logger.loggers, the sinks in registration order
    options,    \* Logger.options
    fs,         \* what opening the log file meets: "ok", "nodir", "denied"
    stdout,     \* what the latest call printed on os.Stdout, one entry per Fprintln
    fileData,   \* the bytes the latest call appended to the log file
    panicked,   \* the process aborted
    call,       \* the latest call and what it did
    prefixIn,   \* reshape: argument prefix
    textIn,     \* reshape: argument text
    shaped,     \* reshape: the string returned
    pc          \* reshape: "start" before the call, "done" after it

vars == <<level, goos, loggers, options, fs, stdout, fileData,
          panicked, call, prefixIn, textIn, shaped, pc>>

loggerVars == <<level, goos, loggers, options, fs, stdout, fileData,
                panicked, call>>

reshapeVars == <<prefixIn, textIn, shaped, pc>>

-----------------------------------------------------------------------------
(* Bounds of the model *)

\* the longest format string an emission call is given
MaxFmtLen == 1

\* the most words in a body handed to reshape
MaxWords == 3

-----------------------------------------------------------------------------
(* Bytes *)

SP == 32
LF == 10
CR == 13
TAB == 9
PCT == 37

\* the line break reshape puts between physical lines
carriageReturn == <<CR, LF>>

RECURSIVE Cat(_)
\* the concatenation of a sequence of strings
Cat(ss) == IF ss = <<>> THEN <<>> ELSE Head(ss) \o Cat(Tail(ss))

\* n copies of byte b
Rep(b, n) == [i \in 1..n |-> b]

\* the sequences over S of length at most n
SeqsUpTo(S, n) == UNION { [1..k -> S] : k \in 0..n }

-----------------------------------------------------------------------------
(* Levels and options *)

TraceL == 0
Information == 1
DebugL == 2
Warning == 3
ErrorL == 4

Levels == {TraceL, Information, DebugL, Warning, ErrorL}

TextMaxWidth == 100

LogToStdout == 1
LogToFile == 2
ReshapeLogs == 4
DefaultLogOptions == 7

\* options&flag > 0, for a flag that is a power of two
HasFlag(opts, flag) == (opts \div flag) % 2 = 1

-----------------------------------------------------------------------------
(* fmt.Sprintf / fmt.Fprintf with no operands *)

\* "%!" and the two diagnostics of a verb without an operand
percentBangString == <<37, 33>>
missingString == <<40, 77, 73, 83, 83, 73, 78, 71, 41>>
noVerbString == <<37, 33, 40, 78, 79, 86, 69, 82, 66, 41>>

\* the flag characters and the digits of a width or precision
FmtFlags == {35, 48, 43, 45, 32}
FmtDigits == 48..57

RECURSIVE SkipWhile(_, _, _)
\* the first index from i on whose byte is not in set (Len(f)+1 when none)
SkipWhile(f, i, set) ==
    IF i <= Len(f) /\ f[i] \in set THEN SkipWhile(f, i + 1, set) ELSE i

\* the first index from i on (Len(f)+1 when none) that holds a percent sign
nextVerb(f, i) ==
    LET hits == { j \in i..Len(f) : f[j] = PCT }
    IN  IF hits = {} THEN Len(f) + 1
        ELSE CHOOSE j \in hits : \A k \in hits : j <= k

RECURSIVE doPrintf(_, _)
\* the output for format f from index i on, no operands given: the text up to
\* the next percent sign is copied; past the flags, width and precision, "%%"
\* prints a percent sign, a format that ends there has no verb, and any other
\* verb has no operand to print
doPrintf(f, i) ==
    LET v          == nextVerb(f, i)
        afterFlags == SkipWhile(f, v + 1, FmtFlags)
        afterWidth == SkipWhile(f, afterFlags, FmtDigits)
        afterPrec  == IF afterWidth <= Len(f) /\ f[afterWidth] = 46
                      THEN SkipWhile(f, afterWidth + 1, FmtDigits)
                      ELSE afterWidth
    IN  IF v > Len(f) THEN SubSeq(f, i, Len(f))
        ELSE SubSeq(f, i, v - 1) \o
             (IF afterPrec > Len(f) THEN noVerbString
              ELSE IF f[afterPrec] = PCT THEN <<PCT>> \o doPrintf(f, afterPrec + 1)
              ELSE percentBangString \o <<f[afterPrec]>> \o missingString
                       \o doPrintf(f, afterPrec + 1))

Sprintf(format) == doPrintf(format, 1)

-----------------------------------------------------------------------------
(* prefix *)

\* what time.Now().Format("2006-01-02T15:04:05-0700") returns: 24 bytes whatever
\* the instant; the model's calls all happen at the layout's own instant
Timestamps ==
    { <<50,48,48,54,45,48,49,45,48,50,84,49,53,58,48,52,58,48,53,45,48,55,48,48>> }

\* the level's letter: T, I, W, D, and E for anything else
levelChar(lev) ==
    CASE lev = TraceL -> 84
      [] lev = Information -> 73
      [] lev = Warning -> 87
      [] lev = DebugL -> 68
      [] OTHER -> 69

\* "<timestamp> [<char>] -\t", now being the formatted time.Now()
prefix(lev, now) == now \o <<SP, 91, levelChar(lev), 93, SP, 45, TAB>>

-----------------------------------------------------------------------------
(* reshape *)

isSeparator(char) == char = SP \/ char = LF \/ char = CR

\* the first index from i on (Len(text)+1 when none) whose byte is a separator
\* (sep = TRUE) or is not one (sep = FALSE)
scan(text, i, sep) ==
    LET hits == { j \in i..Len(text) : isSeparator(text[j]) = sep }
    IN  IF hits = {} THEN Len(text) + 1
        ELSE CHOOSE j \in hits : \A k \in hits : j <= k

RECURSIVE splitWords(_, _, _)
\* the first loop of reshape, taken a word at a time: from index i on, skip the
\* separators (an empty word is never appended), read bytes into word up to
\* the next separator or the last byte, append word to words
splitWords(text, i, words) ==
    LET first == scan(text, i, FALSE)
        stop  == scan(text, first, TRUE)
    IN  IF first > Len(text) THEN words
        ELSE splitWords(text, stop, Append(words, SubSeq(text, first, stop - 1)))

\* the closure initLine: an empty line for index 0, else the margin
initLine(linesIndex, leftmargin) ==
    IF linesIndex = 0 THEN <<>>
    ELSE Rep(SP, IF leftmargin - 4 > 0 THEN leftmargin - 4 ELSE 0) \o <<TAB>>

\* the test that flushes the running line before a word is appended
overflows(word, line) == Len(word) + Len(line) > TextMaxWidth

RECURSIVE wrapWords(_, _, _, _, _)
\* the second loop of reshape, from the i-th word on (the code's index is i - 1)
wrapWords(words, i, leftmargin, buf, line) ==
    IF i > Len(words) THEN buf
    ELSE LET word  == words[i]
             over  == overflows(word, line)
             buf1  == IF over THEN buf \o line \o carriageReturn ELSE buf
             line1 == IF over THEN initLine(i - 1, leftmargin) ELSE line
             line2 == IF Len(line1) > 0 THEN Append(line1, SP) ELSE line1
             line3 == line2 \o word
             buf2  == IF i = Len(words) THEN buf1 \o line3 ELSE buf1
         IN  wrapWords(words, i + 1, leftmargin, buf2, line3)

reshape(pfx, text) ==
    wrapWords(splitWords(text, 1, <<>>), 1, Len(pfx), <<>>, pfx)

-----------------------------------------------------------------------------
(* SetLogLevel *)

any(lhs, rhs) == lhs \in rhs

\* SetLogLevel with a fallback that silences the log: an unrecognised string
\* selects ErrorL
newLevel_failClosed(l) ==
    IF any(l, {"information", "info", "i", "in"}) THEN Information
    ELSE IF any(l, {"warning", "warn", "w", "wa"}) THEN Warning
    ELSE IF any(l, {"error", "err", "er", "e"}) THEN ErrorL
    ELSE IF any(l, {"debug", "deb", "de", "d"}) THEN DebugL
    ELSE ErrorL

\* the level SetLogLevel assigns for the string l
newLevel(l) ==
    IF any(l, {"information", "info", "i", "in"}) THEN Information
    ELSE IF any(l, {"warning", "warn", "w", "wa"}) THEN Warning
    ELSE IF any(l, {"error", "err", "er", "e"}) THEN ErrorL
    ELSE IF any(l, {"debug", "deb", "de", "d"}) THEN DebugL
    ELSE TraceL

-----------------------------------------------------------------------------
(* New *)

\* New as it was before the platform test was added: the flag alone decides
registersStdout_flagOnly(os, opts) == HasFlag(opts, LogToStdout)

\* the condition under which New appends os.Stdout
registersStdout(os, opts) == os # "windows" \/ HasFlag(opts, LogToStdout)

\* the condition under which New appends the file sink
registersFile(opts) == HasFlag(opts, LogToFile)

\* Logger.loggers as New builds it
newLoggers(os, opts) ==
    (IF registersStdout(os, opts) THEN <<"stdout">> ELSE <<>>)
        \o (IF registersFile(opts) THEN <<"file">> ELSE <<>>)

-----------------------------------------------------------------------------
(* file.WriteMsg *)

\* one Fprintln on os.Stdout: a sink's bytes, or a diagnostic
sinkLine(p) == [text |-> p, diag |-> ""]
diagLine(d) == [text |-> <<>>, diag |-> d]

\* the last branch treating the failed open as the middle branch does
abandonWrite_panics(msg) ==
    [open |-> "other", attempts |-> 0, fileOut |-> <<>>, diag |-> <<>>,
     ret |-> "panic", panicVal |-> "Could not log to file", created |-> FALSE]

\* the last branch: the open failed, and not because the path is missing
abandonWrite(msg) ==
    [open |-> "other", attempts |-> 0, fileOut |-> <<>>,
     diag |-> << diagLine("Could not log to file") >>,
     ret |-> "err", panicVal |-> "", created |-> FALSE]

\* the first branch: the file is open. w1 and w2 tell whether the Fprintf inside
\* the branch and the one after the if chain succeed; the second runs only
\* when the first failed, the first's success returning at once
writeOpened(msg, w1, w2) ==
    IF w1
    THEN [open |-> "ok", attempts |-> 1, fileOut |-> Sprintf(msg \o <<LF>>),
          diag |-> <<>>, ret |-> "nil", panicVal |-> "", created |-> FALSE]
    ELSE [open |-> "ok", attempts |-> 2,
          fileOut |-> IF w2 THEN Sprintf(msg \o <<LF>>) ELSE <<>>,
          diag |-> << diagLine("write error") >>
                     \o (IF w2 THEN <<>> ELSE << diagLine("write error") >>),
          ret |-> "nil", panicVal |-> "", created |-> FALSE]

\* the middle branch: the path does not exist. mkdirErr is what MkdirAll
\* returns, reopenErr what the second OpenFile returns ("nil", "exist",
\* "other"); both arms of the if that follows panic
recoverMissingDir(msg, mkdirErr, reopenErr) ==
    LET err == IF mkdirErr = "nil" THEN reopenErr ELSE mkdirErr
    IN  [open |-> "notexist", attempts |-> 0, fileOut |-> <<>>, diag |-> <<>>,
         ret |-> "panic",
         panicVal |-> IF err = "exist" THEN "err" ELSE "Could not open log file",
         created |-> (mkdirErr = "nil" /\ reopenErr = "nil"),
         mkdir |-> mkdirErr,
         reopen |-> IF mkdirErr = "nil" THEN reopenErr ELSE "none"]

\* what the first OpenFile returns in file-system state fsNow
openErr(fsNow) ==
    CASE fsNow = "ok" -> "nil"
      [] fsNow = "nodir" -> "notexist"
      [] OTHER -> "other"

WriteMsg(msg, fsNow, mkdirErr, reopenErr, w1, w2) ==
    CASE openErr(fsNow) = "nil" -> writeOpened(msg, w1, w2)
      [] openErr(fsNow) = "notexist" -> recoverMissingDir(msg, mkdirErr, reopenErr)
      [] OTHER -> abandonWrite(msg)

\* file.Write: the bytes handed over are the message WriteMsg formats
Write(p, fsNow, mkdirErr, reopenErr, w1, w2) ==
    WriteMsg(p, fsNow, mkdirErr, reopenErr, w1, w2)

-----------------------------------------------------------------------------
(* Logger._log *)

\* the level test off by one: a call at the threshold itself is dropped
filtered_inclusive(lev, threshold) == lev <= threshold

\* the test that returns before anything is written
filtered(lev, threshold) == lev < threshold

\* the message: the operands formatted once, then reshaped or joined
formatMsg(opts, lev, format, now) ==
    IF HasFlag(opts, ReshapeLogs)
    THEN reshape(prefix(lev, now), Sprintf(format))
    ELSE prefix(lev, now) \o Sprintf(format)

noFile == [open |-> "none", attempts |-> 0, fileOut |-> <<>>, diag |-> <<>>,
           ret |-> "none", panicVal |-> "", created |-> FALSE]

RECURSIVE fanOut(_, _, _, _, _)
\* the loop over l.loggers from the i-th sink on: fmt.Fprintln(logger, msg)
\* hands msg and a newline to the sink; a panic inside a sink ends the loop
fanOut(sinks, i, msg, e, acc) ==
    IF i > Len(sinks) \/ acc.file.ret = "panic" THEN acc
    ELSE LET p == msg \o <<LF>>
         IN  IF sinks[i] = "stdout"
             THEN fanOut(sinks, i + 1, msg, e,
                         [acc EXCEPT !.out = Append(@, sinkLine(p)),
                                     !.writes = Append(@, <<"stdout", p>>)])
             ELSE LET f == Write(p, e.fs, e.mkdirErr, e.reopenErr, e.w1, e.w2)
                  IN  fanOut(sinks, i + 1, msg, e,
                             [acc EXCEPT !.out = @ \o f.diag,
                                         !.writes = Append(@, <<"file", p>>),
                                         !.file = f])

\* the outside world during one call: the file system, and the errors the
\* system calls of WriteMsg return
\* (fields that the call cannot come to read are held at one value)
Envs ==
    { e \in [fs : {fs}, mkdirErr : {"nil", "exist", "other"},
             reopenErr : {"nil", "exist", "other"}, w1 : BOOLEAN, w2 : BOOLEAN] :
        /\ (\A i \in 1..Len(loggers) : loggers[i] # "file") =>
               (e.mkdirErr = "nil" /\ e.reopenErr = "nil" /\ e.w1 /\ e.w2)
        /\ (fs # "nodir") => (e.mkdirErr = "nil" /\ e.reopenErr = "nil")
        /\ (e.mkdirErr # "nil") => e.reopenErr = "nil"
        /\ (fs # "ok") => (e.w1 /\ e.w2)
        /\ e.w1 => e.w2 }

FmtBytes == {97, SP, PCT}

Formats == SeqsUpTo(FmtBytes, MaxFmtLen)

\* (log.SetOutput re-points the standard library's logger, which this package
\* never writes through; it is no state of the package and is left out)
\* The format, the time and the outside world are read only past the two
\* early returns, and are drawn there.
_log(name, lev) ==
    /\ ~panicked
    /\ IF Len(loggers) = 0
       THEN /\ panicked' = TRUE
            /\ stdout' = <<>>
            /\ fileData' = <<>>
            /\ call' = [op |-> "_log", name |-> name, lev |-> lev,
                        threshold |-> level, ret |-> "panic",
                        panicVal |-> "Could not log because no loggers are configured",
                        emitted |-> FALSE, msg |-> <<>>, writes |-> <<>>,
                        file |-> noFile]
            /\ UNCHANGED fs
       ELSE IF filtered(lev, level)
       THEN /\ stdout' = <<>>
            /\ fileData' = <<>>
            /\ call' = [op |-> "_log", name |-> name, lev |-> lev,
                        threshold |-> level, ret |-> "returned", panicVal |-> "",
                        emitted |-> FALSE, msg |-> <<>>, writes |-> <<>>,
                        file |-> noFile]
            /\ UNCHANGED <<fs, panicked>>
       ELSE \E format \in Formats, now \in Timestamps, e \in Envs :
            \E msg \in { formatMsg(options, lev, format, now) } :
            \E r \in { fanOut(loggers, 1, msg, e,
                              [out |-> <<>>, writes |-> <<>>, file |-> noFile]) } :
                /\ stdout' = r.out
                /\ fileData' = r.file.fileOut
                /\ panicked' = (r.file.ret = "panic")
                /\ fs' = IF r.file.created THEN "ok" ELSE fs
                /\ call' = [op |-> "_log", name |-> name, lev |-> lev,
                            threshold |-> level,
                            ret |-> IF r.file.ret = "panic" THEN "panic"
                                    ELSE "returned",
                            panicVal |-> r.file.panicVal,
                            emitted |-> TRUE, msg |-> msg, writes |-> r.writes,
                            file |-> r.file]
    /\ UNCHANGED <<level, goos, loggers, options>>
    /\ UNCHANGED reshapeVars

-----------------------------------------------------------------------------
(* The operations *)

\* the strings SetLogLevel is given: every alias, and strings that are none
LevelNames ==
    {"information", "info", "i", "in", "warning", "warn", "w", "wa",
     "error", "err", "er", "e", "debug", "deb", "de", "d"}
        \cup {"", "trace", "Info", "WARN", "x"}

\* the process starts with the threshold at TraceL and a Logger built by New
Init ==
    /\ level = TraceL
    /\ goos \in {"linux", "windows"}
    /\ options \in 0..DefaultLogOptions
    /\ loggers = newLoggers(goos, options)
    /\ fs \in {"ok", "nodir", "denied"}
    /\ stdout = <<>>
    /\ fileData = <<>>
    /\ panicked = FALSE
    /\ call = [op |-> "New", opts |-> options]
    /\ prefixIn = <<>>
    /\ textIn = <<>>
    /\ shaped = <<>>
    /\ pc = "idle"

SetLogLevel ==
    \E l \in LevelNames :
        /\ ~panicked
        /\ level' = newLevel(l)
        /\ stdout' = <<>>
        /\ fileData' = <<>>
        /\ call' = [op |-> "SetLogLevel", l |-> l,
                    changed |-> (level # newLevel(l)),
                    repeated |-> (call.op = "SetLogLevel" /\ call.l = l)]
        /\ UNCHANGED <<goos, loggers, options, fs, panicked>>
        /\ UNCHANGED reshapeVars

New ==
    \E opts \in 0..DefaultLogOptions :
        /\ ~panicked
        /\ loggers' = newLoggers(goos, opts)
        /\ options' = opts
        /\ stdout' = <<>>
        /\ fileData' = <<>>
        /\ call' = [op |-> "New", opts |-> opts]
        /\ UNCHANGED <<level, goos, fs, panicked>>
        /\ UNCHANGED reshapeVars

NewDefault ==
    /\ ~panicked
    /\ loggers' = newLoggers(goos, DefaultLogOptions)
    /\ options' = DefaultLogOptions
    /\ stdout' = <<>>
    /\ fileData' = <<>>
    /\ call' = [op |-> "New", opts |-> DefaultLogOptions]
    /\ UNCHANGED <<level, goos, fs, panicked>>
    /\ UNCHANGED reshapeVars

Trace == _log("Trace", TraceL)

Warn == _log("Warn", Warning)

Info == _log("Info", Information)

Debug == _log("Debug", DebugL)

Error == _log("Error", ErrorL)

\* the world outside changes what opening the log file meets
FileSystemChanges ==
    /\ ~panicked
    /\ fs' \in {"ok", "nodir", "denied"} \ {fs}
    /\ UNCHANGED <<level, goos, loggers, options, stdout, fileData,
                   panicked, call>>
    /\ UNCHANGED reshapeVars

Next ==
    \/ SetLogLevel
    \/ New
    \/ NewDefault
    \/ Trace
    \/ Warn
    \/ Info
    \/ Debug
    \/ Error
    \/ FileSystemChanges

Spec == Init /\ [][Next]_vars

-----------------------------------------------------------------------------
(* The claims about the logger *)

\* the call is an emission call that got past both early returns
Emitted == call.op = "_log" /\ call.emitted

\* the bytes fmt.Fprintln hands to each sink for the latest call's message
Payload == call.msg \o <<LF>>

\* C1 (as claimed): when the first open finds the path missing, and MkdirAll
\* and the retried open both succeed, the message is appended to the file and
\* the call returns normally, without a panic.
C1_MissingDirRecovery ==
    (/\ Emitted
     /\ call.file.open = "notexist"
     /\ call.file.mkdir = "nil"
     /\ call.file.reopen = "nil")
        => (~panicked /\ call.ret = "returned" /\ fileData # <<>>)

\* C2: for a logger with at least one sink, a call at level L under threshold
\* M hands the formatted message and a newline to every configured sink, in
\* order, when L >= M (the console sink printing exactly that), and writes
\* nothing anywhere and returns when L < M.
C2_LevelFiltering ==
    (call.op = "_log" /\ Len(loggers) > 0) =>
        IF call.lev >= call.threshold
        THEN /\ call.emitted
             /\ call.writes = [i \in 1..Len(loggers) |-> <<loggers[i], Payload>>]
             /\ (loggers[1] = "stdout") => (stdout # <<>> /\ stdout[1] = sinkLine(Payload))
        ELSE /\ ~call.emitted
             /\ call.writes = <<>>
             /\ stdout = <<>>
             /\ fileData = <<>>
             /\ call.ret = "returned"
             /\ ~panicked

\* a call at the threshold itself, above Trace, on a logger with both sinks
C2_Witness ==
    /\ Emitted
    /\ call.lev = Warning
    /\ call.threshold = Warning
    /\ loggers = <<"stdout", "file">>
    /\ Len(call.writes) = 2

\* C3 (as claimed): the bytes a call appends to the log file are the bytes it
\* writes to the console: the formatted message and exactly one newline.
C3_FanOutIdentity ==
    (/\ Emitted
     /\ loggers = <<"stdout", "file">>
     /\ call.file.open = "ok"
     /\ call.file.attempts = 1)
        => (/\ stdout = << sinkLine(Payload) >>
            /\ fileData = Payload)

\* C7 (as claimed): when the file opens and the write of the message fails,
\* the error is reported on the console, no second write is attempted, and
\* the call returns normally.
C7_TransientWriteError ==
    (/\ Emitted
     /\ call.file.open = "ok"
     /\ call.file.diag # <<>>)
        => (/\ call.file.attempts = 1
            /\ call.ret = "returned"
            /\ ~panicked)

\* C8: with console and file sinks, when the open fails for a reason other
\* than not-found, the console has the formatted message and then an error
\* report, nothing is written to the file, no write is attempted, the process
\* does not abort and the call returns.
C8_OpenFailureIsolated ==
    (/\ Emitted
     /\ loggers = <<"stdout", "file">>
     /\ call.file.open = "other")
        => (/\ stdout = << sinkLine(Payload), diagLine("Could not log to file") >>
            /\ fileData = <<>>
            /\ call.file.attempts = 0
            /\ ~panicked
            /\ call.ret = "returned")

\* an Error call on a logger with both sinks while the open is denied
C8_Witness ==
    /\ Emitted
    /\ loggers = <<"stdout", "file">>
    /\ call.file.open = "other"
    /\ call.lev = ErrorL
    /\ fs = "denied"

\* C9: after SetLogLevel(l), for every string l, the threshold is a defined
\* level and the process has not aborted; an alias selects its level and any
\* other string (aliases are case-sensitive) selects Trace whatever the
\* threshold was; a second call with the same string changes nothing.
C9_SetLogLevelTotal ==
    (call.op = "SetLogLevel") =>
        /\ level \in Levels
        /\ ~panicked
        /\ call.l \in {"information", "info", "i", "in"} => level = Information
        /\ call.l \in {"warning", "warn", "w", "wa"} => level = Warning
        /\ call.l \in {"error", "err", "er", "e"} => level = ErrorL
        /\ call.l \in {"debug", "deb", "de", "d"} => level = DebugL
        /\ call.l \in {"", "trace", "Info", "WARN", "x"} => level = TraceL
        /\ call.repeated => ~call.changed

\* an alias in the wrong case, given while the threshold was above Trace
C9_Witness ==
    /\ call.op = "SetLogLevel"
    /\ call.l = "Info"
    /\ call.changed
    /\ level = TraceL

\* C10 (as claimed): the console sink is registered if and only if the
\* write-to-console flag is set, the file sink if and only if the write-to-file
\* flag is set; a logger built with neither flag has no sink, and an emission
\* call on it panics before any output.
C10_SinksFromFlags ==
    (call.op = "_log") =>
        /\ (\E i \in 1..Len(loggers) : loggers[i] = "stdout")
               <=> HasFlag(options, LogToStdout)
        /\ (\E i \in 1..Len(loggers) : loggers[i] = "file")
               <=> HasFlag(options, LogToFile)
        /\ (~HasFlag(options, LogToStdout) /\ ~HasFlag(options, LogToFile))
               => (loggers = <<>> /\ panicked /\ stdout = <<>>)

\* C10 (amended): the console sink is registered if and only if the
\* write-to-console flag is set or the platform is not Windows, the file sink
\* if and only if the write-to-file flag is set, console before file; the
\* logger has no sink exactly when neither flag is set on Windows, and then
\* every emission call panics before any output.
C10_SinksFromFlagsAndPlatform ==
    /\ loggers = (IF goos # "windows" \/ HasFlag(options, LogToStdout)
                  THEN <<"stdout">> ELSE <<>>)
                    \o (IF HasFlag(options, LogToFile) THEN <<"file">> ELSE <<>>)
    /\ (loggers = <<>>) <=>
           (/\ goos = "windows"
            /\ ~HasFlag(options, LogToStdout)
            /\ ~HasFlag(options, LogToFile))
    /\ (call.op = "_log" /\ loggers = <<>>) =>
           (/\ panicked
            /\ call.ret = "panic"
            /\ ~call.emitted
            /\ stdout = <<>>
            /\ fileData = <<>>)

\* an Error call on a logger built on Windows with neither flag
C10_Witness ==
    /\ call.op = "_log"
    /\ call.lev = ErrorL
    /\ loggers = <<>>
    /\ options = ReshapeLogs
    /\ panicked

-----------------------------------------------------------------------------
(* reshape applied to bounded inputs *)

\* a word of n letters 'a'
Word(n) == Rep(97, n)

\* word lengths on both sides of the room a 31-byte prefix leaves (69)
WordLens == {1, 34, 69, 70}

\* runs of the three separator bytes
Separators == { <<SP>>, <<LF>>, <<SP, SP>>, <<CR, LF>> }

\* what may stand before the first and after the last word
Pads == { <<>>, <<SP>> }

RECURSIVE Join(_, _)
\* the strings of ss with sep between them
Join(ss, sep) ==
    IF ss = <<>> THEN <<>>
    ELSE IF Len(ss) = 1 THEN ss[1]
    ELSE ss[1] \o sep \o Join(Tail(ss), sep)

Bodies ==
    { lead \o Join([k \in 1..Len(ls) |-> Word(ls[k])], sep) \o trail :
        <<ls, sep, lead, trail>> \in
            SeqsUpTo(WordLens, MaxWords) \X Separators \X Pads \X Pads }

\* the prefixes _log passes, reshape's only caller
Prefixes == { prefix(lev, now) : <<lev, now>> \in Levels \X Timestamps }

InitReshape ==
    /\ prefixIn \in Prefixes
    /\ textIn \in Bodies
    /\ shaped = <<>>
    /\ pc = "start"
    /\ level = TraceL
    /\ goos = "linux"
    /\ options = DefaultLogOptions
    /\ loggers = newLoggers(goos, options)
    /\ fs = "ok"
    /\ stdout = <<>>
    /\ fileData = <<>>
    /\ panicked = FALSE
    /\ call = [op |-> "New", opts |-> options]

Reshape ==
    /\ pc = "start"
    /\ shaped' = reshape(prefixIn, textIn)
    /\ pc' = "done"
    /\ UNCHANGED <<prefixIn, textIn>>
    /\ UNCHANGED loggerVars

NextReshape == Reshape

SpecReshape == InitReshape /\ [][NextReshape]_vars

-----------------------------------------------------------------------------
(* What reshape returned, read as physical lines *)

\* the first index from i on where carriageReturn starts (Len(s)+1 when none)
nextBreak(s, i) ==
    LET hits == { j \in i..(Len(s) - 1) : s[j] = CR /\ s[j + 1] = LF }
    IN  IF hits = {} THEN Len(s) + 1
        ELSE CHOOSE j \in hits : \A k \in hits : j <= k

RECURSIVE linesFrom(_, _)
linesFrom(s, i) ==
    LET b == nextBreak(s, i)
    IN  IF b > Len(s) THEN << SubSeq(s, i, Len(s)) >>
        ELSE << SubSeq(s, i, b - 1) >> \o linesFrom(s, b + 2)

\* the physical lines of s, carriageReturn being the line break
PhysicalLines(s) == linesFrom(s, 1)

\* the words on the k-th physical line, the prefix (k = 1) or the leading
\* blanks and tab (k > 1) set aside
lineWords(l, k, leftmargin) ==
    LET blanks == SkipWhile(l, 1, {SP})
        from   == IF k = 1 THEN leftmargin + 1
                  ELSE IF blanks <= Len(l) /\ l[blanks] = TAB THEN blanks + 1
                  ELSE 1
    IN  splitWords(l, from, <<>>)

\* l begins with n spaces and then a tab
hasMargin(l, n) ==
    /\ Len(l) >= n + 1
    /\ \A j \in 1..n : l[j] = SP
    /\ l[n + 1] = TAB

\* C4 (as claimed): no physical line of reshape's output is longer than 100
\* bytes, except a line holding a single word that is itself longer than the
\* room the prefix leaves (100 - P).
C4_WidthBound ==
    pc = "done" =>
        \A k \in 1..Len(PhysicalLines(shaped)) :
            LET l  == PhysicalLines(shaped)[k]
                ws == lineWords(l, k, Len(prefixIn))
            IN  \/ Len(l) <= TextMaxWidth
                \/ /\ Len(ws) = 1
                   /\ Len(ws[1]) > TextMaxWidth - Len(prefixIn)

\* C5 (as claimed): when reshape wraps, every physical line after the first
\* begins with exactly P - 4 spaces followed by one tab, also when the first
\* word of the body is the one that does not fit.
C5_ContinuationMargin ==
    pc = "done" =>
        \A k \in 2..Len(PhysicalLines(shaped)) :
            hasMargin(PhysicalLines(shaped)[k], Len(prefixIn) - 4)

\* C6 (as claimed): when prefix and body together are at most 100 bytes,
\* reshape returns the prefix followed by the body's words joined by single
\* spaces, on one line; also for a body with no words.
C6_ShortRoundTrip ==
    (pc = "done" /\ Len(prefixIn) + Len(textIn) <= TextMaxWidth) =>
        shaped = prefixIn \o Join(splitWords(textIn, 1, <<>>), <<SP>>)

\* what the code does instead, for the record of C4 to C6: the words come out
\* in order, each line holds the prefix or margin and then " " + word for
\* each of its words, and a line grows to 101 bytes at most unless it holds a
\* single word
ReshapeAsBuilt ==
    pc = "done" =>
        LET ws == splitWords(textIn, 1, <<>>)
            ls == PhysicalLines(shaped)
        IN  /\ (ws = <<>>) => shaped = <<>>
            /\ (ws # <<>>) =>
                  /\ Cat([k \in 1..Len(ls) |-> lineWords(ls[k], k, Len(prefixIn))]) = ws
                  /\ SubSeq(ls[1], 1, Len(prefixIn)) = prefixIn
                  /\ \A k \in 1..Len(ls) :
                        \/ Len(ls[k]) <= TextMaxWidth + 1
                        \/ Len(lineWords(ls[k], k, Len(prefixIn))) = 1
            /\ (Len(prefixIn) + Len(textIn) <= TextMaxWidth /\ ws # <<>>) =>
                  shaped = prefixIn \o <<SP>> \o Join(ws, <<SP>>)

====
